---- MODULE Spec2Model ----
(***************************************************************************)
(* Model of harper-core/src/token.rs: the Token value type and the         *)
(* TokenStringExt queries over a token slice (per-kind first/last/index    *)
(* queries, first_sentence_word, span, and the chunk / sentence /          *)
(* paragraph segmentation iterators).                                      *)
(*                                                                         *)
(* Rust slices are 0-based; TLA+ sequences are 1-based.  Every index the   *)
(* code computes is kept 0-based here, and element i of a slice s is       *)
(* written s[i + 1].  Option<T> is a sequence of length at most one, so    *)
(* Option::into_iter().chain(..) is plain concatenation.                   *)
(***************************************************************************)
EXTENDS Integers, Sequences, FiniteSets

\* ---------------------------------------------------------------- bounds
MaxLen == 4         \* longest token sequence of the gapless input family
MaxSpanLen == 3     \* longest token sequence of the free-span input family
MaxPos == 2         \* largest character offset of the free-span input family

\* ---------------------------------------------------------------- values
None == <<>>
Some(v) == <<v>>

Span(start, end) == [start |-> start, end |-> end]

Token(span, kind) == [span |-> span, kind |-> kind]

\* The variants of TokenKind the queries below distinguish.
Kinds == {"Word", "Space", "Unlintable", "SentenceTerminator",
          "ParagraphBreak", "ChunkTerminator"}

\* The names the per-kind method families are generated for.
Things == {"word", "space", "unlintable", "sentence_terminator",
           "paragraph_break", "chunk_terminator"}

\* kind.is_<thing>()
is_(thing, kind) ==
    CASE thing = "word"                -> kind = "Word"
      [] thing = "space"               -> kind = "Space"
      [] thing = "unlintable"          -> kind = "Unlintable"
      [] thing = "sentence_terminator" -> kind = "SentenceTerminator"
      [] thing = "paragraph_break"     -> kind = "ParagraphBreak"
      [] thing = "chunk_terminator"    -> kind = "ChunkTerminator"

\* ------------------------------------------------------ iterator helpers
\* slice.iter().rev()
rev(s) == [i \in 1..Len(s) |-> s[Len(s) + 1 - i]]

\* Iterator::position / Itertools::find_position over the tokens of s:
\* the 0-based offset of the first token whose kind is <thing>.
position(s, thing) ==
    LET hits == {i \in 1..Len(s) : is_(thing, s[i].kind)}
    IN  IF hits = {} THEN None
        ELSE Some((CHOOSE i \in hits : \A j \in hits : i <= j) - 1)

\* Iterator::find over the tokens of s.
find(s, thing) ==
    LET p == position(s, thing)
    IN  IF p = None THEN None ELSE Some(s[p[1] + 1])

\* Itertools::tuple_windows::<(_, _)>
tuple_windows(xs) == [i \in 1..(Len(xs) - 1) |-> <<xs[i], xs[i + 1]>>]

\* ------------------------------------------- create_fns_for!($thing)
first_(s, thing) == find(s, thing)

last_(s, thing) == find(rev(s), thing)

last_index_badoffset(s, thing) ==
    LET p == position(rev(s), thing)
    IN  IF p = None THEN None ELSE Some(Len(s) - p[1])

last_index(s, thing) ==
    LET p == position(rev(s), thing)
    IN  IF p = None THEN None ELSE Some(Len(s) - p[1] - 1)

iter_indices(s, thing) ==
    SelectSeq([i \in 1..Len(s) |-> i - 1], LAMBDA i : is_(thing, s[i + 1].kind))

iter_(s, thing) ==
    LET ind == iter_indices(s, thing)
    IN  [i \in 1..Len(ind) |-> s[ind[i] + 1]]

\* ----------------------------------------------------- first_sentence_word
first_sentence_word_ignoring_unlintable(s) ==
    LET w == position(s, "word")
    IN  IF w = None THEN None ELSE Some(s[w[1] + 1])

first_sentence_word(s) ==
    LET w == position(s, "word")
        u == position(s, "unlintable")
    IN  IF w = None THEN None
        ELSE IF u = None THEN Some(s[w[1] + 1])
        ELSE IF w[1] < u[1] THEN Some(s[w[1] + 1])
        ELSE None

\* ------------------------------------------------------------------ span
RECURSIVE flat_starts_only(_)
flat_starts_only(s) ==
    IF s = <<>> THEN <<>>
    ELSE <<Head(s).span.start>> \o flat_starts_only(Tail(s))

\* .flat_map(|v| [v.span.start, v.span.end].into_iter())
RECURSIVE flat_map_spans(_)
flat_map_spans(s) ==
    IF s = <<>> THEN <<>>
    ELSE <<Head(s).span.start, Head(s).span.end>> \o flat_map_spans(Tail(s))

\* Itertools::minmax
minmax(xs) ==
    LET vals == {xs[i] : i \in 1..Len(xs)}
        lo == CHOOSE v \in vals : \A w \in vals : v <= w
        hi == CHOOSE v \in vals : \A w \in vals : w <= v
    IN  IF Len(xs) = 0 THEN [tag |-> "NoElements", min |-> 0, max |-> 0]
        ELSE IF Len(xs) = 1 THEN [tag |-> "OneElement", min |-> xs[1], max |-> xs[1]]
        ELSE [tag |-> "MinMax", min |-> lo, max |-> hi]

span_collapsing_single(s) ==
    LET min_max == minmax(flat_map_spans(s))
    IN  IF min_max.tag = "NoElements" THEN None
        ELSE IF Len(s) = 1 THEN Some(Span(min_max.min, min_max.min))
        ELSE Some(Span(min_max.min, min_max.max))

span_of_starts(s) ==
    LET min_max == minmax(flat_starts_only(s))
    IN  CASE min_max.tag = "NoElements" -> None
          [] min_max.tag = "OneElement" -> Some(Span(min_max.min, min_max.min))
          [] min_max.tag = "MinMax"     -> Some(Span(min_max.min, min_max.max))

span(s) ==
    LET min_max == minmax(flat_map_spans(s))
    IN  CASE min_max.tag = "NoElements" -> None
          [] min_max.tag = "OneElement" -> Some(Span(min_max.min, min_max.min))
          [] min_max.tag = "MinMax"     -> Some(Span(min_max.min, min_max.max))

\* ---------------------------------------------------------- sub-slices
\* A sub-slice of the receiver is the half-open index range it covers.
Range(lo, hi) == [lo |-> lo, hi |-> hi]

\* &self[a..=b]
RangeInclusive(a, b) == Range(a, b + 1)

\* &self[a..]
RangeFrom(s, a) == Range(a, Len(s))

\* self
RangeFull(s) == Range(0, Len(s))

\* The tokens a sub-slice holds.
slice(s, u) == SubSeq(s, u.lo + 1, u.hi)

\* ---------------------------------------------------------- iter_chunks
iter_chunks_sharing_boundary(s) ==
    LET ind == iter_indices(s, "chunk_terminator")
        first_chunk == IF ind = <<>> THEN None
                       ELSE Some(RangeInclusive(0, ind[1]))
        tw == tuple_windows(ind)
        rest == [i \in 1..Len(tw) |-> RangeInclusive(tw[i][1], tw[i][2])]
        last_i == last_index(s, "chunk_terminator")
        last == IF last_i # None
                THEN (IF last_i[1] + 1 < Len(s)
                      THEN Some(RangeFrom(s, last_i[1] + 1))
                      ELSE None)
                ELSE Some(RangeFull(s))
    IN  first_chunk \o rest \o last

iter_chunks_skipping_middle(s) ==
    LET ind == iter_indices(s, "chunk_terminator")
        first_chunk == IF ind = <<>> THEN None
                       ELSE Some(RangeInclusive(0, ind[1]))
        last_i == last_index(s, "chunk_terminator")
        last == IF last_i # None
                THEN (IF last_i[1] + 1 < Len(s)
                      THEN Some(RangeFrom(s, last_i[1] + 1))
                      ELSE None)
                ELSE Some(RangeFull(s))
    IN  first_chunk \o last

iter_chunks(s) ==
    LET ind == iter_indices(s, "chunk_terminator")
        first_chunk == IF ind = <<>> THEN None
                       ELSE Some(RangeInclusive(0, ind[1]))
        tw == tuple_windows(ind)
        rest == [i \in 1..Len(tw) |-> RangeInclusive(tw[i][1] + 1, tw[i][2])]
        last_i == last_index(s, "chunk_terminator")
        last == IF last_i # None
                THEN (IF last_i[1] + 1 < Len(s)
                      THEN Some(RangeFrom(s, last_i[1] + 1))
                      ELSE None)
                ELSE Some(RangeFull(s))
    IN  first_chunk \o rest \o last

\* ------------------------------------------------------ iter_paragraphs
iter_paragraphs_dropping_whole(s) ==
    LET ind == iter_indices(s, "paragraph_break")
        first_pg == IF ind = <<>> THEN None
                    ELSE Some(RangeInclusive(0, ind[1]))
        tw == tuple_windows(ind)
        rest == [i \in 1..Len(tw) |-> RangeInclusive(tw[i][1] + 1, tw[i][2])]
        last_i == last_index(s, "paragraph_break")
        last_pg == IF last_i # None
                   THEN (IF last_i[1] + 1 < Len(s)
                         THEN Some(RangeFrom(s, last_i[1] + 1))
                         ELSE None)
                   ELSE None
    IN  first_pg \o rest \o last_pg

iter_paragraphs(s) ==
    LET ind == iter_indices(s, "paragraph_break")
        first_pg == IF ind = <<>> THEN None
                    ELSE Some(RangeInclusive(0, ind[1]))
        tw == tuple_windows(ind)
        rest == [i \in 1..Len(tw) |-> RangeInclusive(tw[i][1] + 1, tw[i][2])]
        last_i == last_index(s, "paragraph_break")
        last_pg == IF last_i # None
                   THEN (IF last_i[1] + 1 < Len(s)
                         THEN Some(RangeFrom(s, last_i[1] + 1))
                         ELSE None)
                   ELSE Some(RangeFull(s))
    IN  first_pg \o rest \o last_pg

\* ------------------------------------------------------- iter_sentences
iter_sentences_trailing_empty(s) ==
    LET ind == iter_indices(s, "sentence_terminator")
        first_sentence == IF ind = <<>> THEN None
                          ELSE Some(RangeInclusive(0, ind[1]))
        tw == tuple_windows(ind)
        rest == [i \in 1..Len(tw) |-> RangeInclusive(tw[i][1] + 1, tw[i][2])]
        last_i == last_index(s, "sentence_terminator")
        last_sentence == IF last_i # None
                         THEN (IF last_i[1] + 1 <= Len(s)
                               THEN Some(RangeFrom(s, last_i[1] + 1))
                               ELSE None)
                         ELSE Some(RangeFull(s))
    IN  first_sentence \o rest \o last_sentence

iter_sentences_always_whole(s) ==
    LET ind == iter_indices(s, "sentence_terminator")
        first_sentence == IF ind = <<>> THEN None
                          ELSE Some(RangeInclusive(0, ind[1]))
        tw == tuple_windows(ind)
        rest == [i \in 1..Len(tw) |-> RangeInclusive(tw[i][1] + 1, tw[i][2])]
        last_sentence == Some(RangeFull(s))
    IN  first_sentence \o rest \o last_sentence

iter_sentences(s) ==
    LET ind == iter_indices(s, "sentence_terminator")
        first_sentence == IF ind = <<>> THEN None
                          ELSE Some(RangeInclusive(0, ind[1]))
        tw == tuple_windows(ind)
        rest == [i \in 1..Len(tw) |-> RangeInclusive(tw[i][1] + 1, tw[i][2])]
        last_i == last_index(s, "sentence_terminator")
        last_sentence == IF last_i # None
                         THEN (IF last_i[1] + 1 < Len(s)
                               THEN Some(RangeFrom(s, last_i[1] + 1))
                               ELSE None)
                         ELSE Some(RangeFull(s))
    IN  first_sentence \o rest \o last_sentence

\* ------------------------------ tests::parses_sentences_correctly (loop)
\* for sentence in toks.iter_sentences() { if let Some(span) = sentence.span() { push } }
sentence_spans(s) ==
    LET sents == iter_sentences(s)
        each == [i \in 1..Len(sents) |-> span(slice(s, sents[i]))]
        kept == SelectSeq(each, LAMBDA o : o # None)
    IN  [i \in 1..Len(kept) |-> kept[i][1]]

\* ================================================================ state
VARIABLES
    toks,     \* the token slice the queries are called on
    op,       \* the query that has run on toks ("none" before any)
    parent,   \* the segmentation that produced toks ("none" for a document)
    thing,    \* the kind name a per-kind query was generated for
    units,    \* sub-slices yielded by iter_chunks / _sentences / _paragraphs
    index,    \* Option<usize> returned by last_<thing>_index
    found,    \* Option<Token> returned by last_<thing> / first_sentence_word
    bound,    \* Option<Span> returned by span
    spans     \* spans collected by the sentence loop

vars == <<toks, op, parent, thing, units, index, found, bound, spans>>

SegOps == {"iter_chunks", "iter_sentences", "iter_paragraphs"}

\* The terminator predicate each segmentation splits on.
TermOf(o) ==
    CASE o = "iter_chunks"     -> "chunk_terminator"
      [] o = "iter_sentences"  -> "sentence_terminator"
      [] o = "iter_paragraphs" -> "paragraph_break"

\* ---------------------------------------------------------------- inputs
SeqsUpTo(n, T) == UNION {[1..k -> T] : k \in 0..n}

\* A gapless tokenization of one character per token, any kinds.
GaplessInputs ==
    {[i \in 1..Len(ks) |-> Token(Span(i - 1, i), ks[i])] : ks \in SeqsUpTo(MaxLen, Kinds)}

\* Token::new performs no validation of order or adjacency; a Span itself
\* keeps start <= end.
SpanSet == {sp \in {Span(a, b) : a \in 0..MaxPos, b \in 0..MaxPos} : sp.start <= sp.end}

FreeSpanInputs ==
    SeqsUpTo(MaxSpanLen,
             {Token(sp, k) : sp \in SpanSet, k \in {"Word", "SentenceTerminator"}})

Init ==
    /\ toks \in GaplessInputs \cup FreeSpanInputs
    /\ op = "none"
    /\ parent = "none"
    /\ thing = "none"
    /\ units = <<>>
    /\ index = None
    /\ found = None
    /\ bound = None
    /\ spans = <<>>

\* --------------------------------------------------------------- actions
IterChunks ==
    /\ op = "none"
    /\ op' = "iter_chunks"
    /\ units' = iter_chunks(toks)
    /\ UNCHANGED <<toks, parent, thing, index, found, bound, spans>>

IterSentences ==
    /\ op = "none"
    /\ op' = "iter_sentences"
    /\ units' = iter_sentences(toks)
    /\ UNCHANGED <<toks, parent, thing, index, found, bound, spans>>

IterParagraphs ==
    /\ op = "none"
    /\ op' = "iter_paragraphs"
    /\ units' = iter_paragraphs(toks)
    /\ UNCHANGED <<toks, parent, thing, index, found, bound, spans>>

\* Downstream code takes one yielded unit and queries it in turn.
Descend ==
    /\ op \in SegOps
    /\ \E i \in 1..Len(units) :
          toks' = slice(toks, units[i])
    /\ parent' = op
    /\ op' = "none"
    /\ units' = <<>>
    /\ UNCHANGED <<thing, index, found, bound, spans>>

LastOf ==
    /\ op = "none"
    /\ \E t \in Things :
          /\ thing' = t
          /\ index' = last_index(toks, t)
          /\ found' = last_(toks, t)
    /\ op' = "last"
    /\ UNCHANGED <<toks, parent, units, bound, spans>>

FirstSentenceWord ==
    /\ op = "none"
    /\ op' = "first_sentence_word"
    /\ found' = first_sentence_word(toks)
    /\ UNCHANGED <<toks, parent, thing, units, index, bound, spans>>

SpanOf ==
    /\ op = "none"
    /\ op' = "span"
    /\ bound' = span(toks)
    /\ UNCHANGED <<toks, parent, thing, units, index, found, spans>>

SentenceSpans ==
    /\ op = "none"
    /\ op' = "sentence_spans"
    /\ units' = iter_sentences(toks)
    /\ spans' = sentence_spans(toks)
    /\ UNCHANGED <<toks, parent, thing, index, found, bound>>

Next ==
    \/ IterChunks
    \/ IterSentences
    \/ IterParagraphs
    \/ Descend
    \/ LastOf
    \/ FirstSentenceWord
    \/ SpanOf
    \/ SentenceSpans

Spec == Init /\ [][Next]_vars

\* ============================================================ properties
\* 0-based positions of s whose token is a <thing>.
TermPositions(s, t) == {j \in 0..(Len(s) - 1) : is_(t, s[j + 1].kind)}

RECURSIVE ConcatUnits(_, _)
ConcatUnits(s, us) ==
    IF us = <<>> THEN <<>>
    ELSE slice(s, Head(us)) \o ConcatUnits(s, Tail(us))

\* C1: the units of every segmentation are consecutive index ranges of the
\* input in order: the first starts at 0, each later one starts right after
\* the previous one's last position, the last ends at len - 1, and their
\* concatenation is the input.
C1_Partition ==
    op \in SegOps =>
        /\ \A i \in 1..Len(units) : 0 <= units[i].lo /\ units[i].lo <= units[i].hi
        /\ Len(units) > 0 => /\ units[1].lo = 0
                             /\ units[Len(units)].hi - 1 = Len(toks) - 1
        /\ \A i \in 1..(Len(units) - 1) : units[i + 1].lo = (units[i].hi - 1) + 1
        /\ \A i, j \in 1..Len(units) :
              i # j => (units[i].lo..(units[i].hi - 1)) \cap (units[j].lo..(units[j].hi - 1)) = {}
        /\ ConcatUnits(toks, units) = toks

C1_Witness ==
    /\ op \in SegOps
    /\ Len(units) >= 3
    /\ \E i \in 1..Len(units) : units[i].hi - units[i].lo >= 2

\* C2: every terminator token is the last element of exactly one unit, and
\* no unit holds a terminator anywhere but at its last position.
C2_BoundaryOwnership ==
    op \in SegOps =>
        /\ \A j \in TermPositions(toks, TermOf(op)) :
              Cardinality({i \in 1..Len(units) :
                             units[i].lo <= j /\ units[i].hi - 1 = j}) = 1
        /\ \A i \in 1..Len(units) :
              \A j \in units[i].lo..(units[i].hi - 2) :
                  j \notin TermPositions(toks, TermOf(op))

C2_Witness ==
    /\ op \in SegOps
    /\ Cardinality(TermPositions(toks, TermOf(op))) >= 2
    /\ \E j \in TermPositions(toks, TermOf(op)) : j + 1 \in TermPositions(toks, TermOf(op))
    /\ Len(units) >= 2

\* C3: on the empty token sequence every segmentation yields zero units.
C3_EmptyYieldsNothing ==
    (op \in SegOps /\ toks = <<>>) => units = <<>>

\* C4: a sequence without any terminator token yields exactly one unit, the
\* whole sequence.
C4_NoTerminators ==
    (op \in SegOps /\ TermPositions(toks, TermOf(op)) = {}) =>
        /\ Len(units) = 1
        /\ units[1].lo = 0
        /\ units[1].hi = Len(toks)
        /\ slice(toks, units[1]) = toks

C4_Witness ==
    /\ op \in SegOps
    /\ TermPositions(toks, TermOf(op)) = {}
    /\ Len(toks) >= 2
    /\ Len(units) = 1

\* C5: a non-empty sequence with k >= 1 terminators yields k units when its
\* final token is a terminator and k + 1 otherwise, the extra unit being the
\* terminator-free remainder; the second of two adjacent terminators is a
\* unit of that one token.
C5_UnitCount ==
    LET terms == TermPositions(toks, TermOf(op))
        k == Cardinality(terms)
        n == Len(toks)
        lastTerm == CHOOSE j \in terms : \A m \in terms : m <= j
    IN  (op \in SegOps /\ n > 0 /\ k >= 1) =>
            /\ (n - 1 \in terms) => Len(units) = k
            /\ (n - 1 \notin terms) =>
                  /\ Len(units) = k + 1
                  /\ units[k + 1] = Range(lastTerm + 1, n)
                  /\ \A j \in (lastTerm + 1)..(n - 1) : j \notin terms
            /\ \A j \in terms :
                  (j + 1 \in terms) =>
                      \E i \in 1..Len(units) : units[i] = Range(j + 1, j + 2)

C5_Witness ==
    /\ op \in SegOps
    /\ Len(toks) = 4
    /\ TermPositions(toks, TermOf(op)) = {1, 2}
    /\ Len(units) = 3

\* C6: last_<thing>_index returns the largest position holding a <thing>
\* (as len - i - 1, never below 0), none when there is no <thing>, and
\* last_<thing> returns the token at that position.
C6_LastIndex ==
    LET terms == TermPositions(toks, thing)
    IN  op = "last" =>
            /\ (terms = {}) => (index = None /\ found = None)
            /\ (terms # {}) =>
                  /\ index # None
                  /\ index[1] \in terms
                  /\ \A j \in terms : j <= index[1]
                  /\ index[1] >= 0 /\ index[1] < Len(toks)
                  /\ found = Some(toks[index[1] + 1])

C6_Witness ==
    /\ op = "last"
    /\ Len(toks) >= 3
    /\ Cardinality(TermPositions(toks, thing)) >= 2
    /\ index # None
    /\ index[1] < Len(toks) - 1

\* C7: first_sentence_word returns the first word token exactly when no
\* unlintable token sits at or before the first word's position, and none
\* otherwise (also when there is no word).
C7_FirstSentenceWord ==
    LET words == TermPositions(toks, "word")
        unl == TermPositions(toks, "unlintable")
        w == CHOOSE j \in words : \A m \in words : j <= m
    IN  op = "first_sentence_word" =>
            /\ (words = {}) => found = None
            /\ (words # {} /\ (\E u \in unl : u <= w)) => found = None
            /\ (words # {} /\ ~(\E u \in unl : u <= w)) => found = Some(toks[w + 1])

C7_Witness ==
    /\ op = "first_sentence_word"
    /\ found # None
    /\ TermPositions(toks, "unlintable") # {}
    /\ \E j \in TermPositions(toks, "word") : found[1] # toks[j + 1]

\* C8 as stated: span of a one-token slice is a zero-length span at that
\* token's start, and span of an empty slice is none.
C8_SingleIsZeroLength ==
    op = "span" =>
        /\ (Len(toks) = 0) => bound = None
        /\ (Len(toks) = 1) =>
              bound = Some(Span(toks[1].span.start, toks[1].span.start))

\* C8 amended: span of a one-token slice is that token's own span (from its
\* start to its end), and span of an empty slice is none.
C8_SingleIsOwnSpan ==
    op = "span" =>
        /\ (Len(toks) = 0) => bound = None
        /\ (Len(toks) = 1) =>
              bound = Some(Span(toks[1].span.start, toks[1].span.end))

C8_Witness ==
    /\ op = "span"
    /\ Len(toks) = 1
    /\ toks[1].span.start < toks[1].span.end
    /\ bound # None

\* The ordering invariant on a token sequence: start <= end in every span,
\* starts non-decreasing, spans not overlapping.
Ordered(s) ==
    /\ \A i \in 1..Len(s) : s[i].span.start <= s[i].span.end
    /\ \A i \in 1..(Len(s) - 1) :
          /\ s[i].span.start <= s[i + 1].span.start
          /\ s[i].span.end <= s[i + 1].span.start

\* Ordered, and each token starts where the previous one ends.
Gapless(s) ==
    /\ Ordered(s)
    /\ \A i \in 1..(Len(s) - 1) : s[i].span.end = s[i + 1].span.start

\* C9: on a non-empty ordered slice span() runs from the first token's start
\* to the last token's end; so in a gapless tokenization the spans of the
\* sentence units each run from their first token's start to their last
\* token's end and consecutive ones are adjacent.
C9_BoundingSpan ==
    /\ (op = "span" /\ Len(toks) > 0 /\ Ordered(toks)) =>
          bound = Some(Span(toks[1].span.start, toks[Len(toks)].span.end))
    /\ (op = "sentence_spans" /\ Len(toks) > 0 /\ Gapless(toks)) =>
          /\ Len(spans) = Len(units)
          /\ \A i \in 1..Len(spans) :
                /\ spans[i].start = toks[units[i].lo + 1].span.start
                /\ spans[i].end = toks[units[i].hi].span.end
          /\ \A i \in 1..(Len(spans) - 1) : spans[i].end = spans[i + 1].start

C9_Witness ==
    /\ op = "sentence_spans"
    /\ Len(toks) = 3
    /\ Gapless(toks)
    /\ Len(spans) = 2
    /\ toks[1].span.start < toks[1].span.end
    /\ toks[2].span.start < toks[2].span.end
    /\ toks[3].span.start < toks[3].span.end
    /\ units[2].hi - units[2].lo = 2

\* C10: applying a segmentation to one of the units it emitted yields
\* exactly one unit, that unit itself.
C10_Resegment ==
    (op \in SegOps /\ parent = op) =>
        /\ Len(units) = 1
        /\ slice(toks, units[1]) = toks
        /\ units[1] = Range(0, Len(toks))

C10_Witness ==
    /\ op \in SegOps
    /\ parent = op
    /\ Len(toks) >= 2
    /\ is_(TermOf(op), toks[Len(toks)].kind)
====
